---- MODULE Spec2Model ----
(***************************************************************************)
(* A model of src/dog_identify.py: the training driver `train`, the        *)
(* evaluation function `evaluate_accuracy`, the tracker `ModelEMA` and the *)
(* two learning-rate schedulers it steps.                                  *)
(*                                                                         *)
(* Fixed-point units (the source uses floats):                             *)
(*   accuracies and losses   hundredths        (0.71 is 71, 6.0 is 600)    *)
(*   the composite metric    thousandths       (0.8*acc + 0.2*(1-loss))    *)
(*   learning rates          1e-9              (2e-5 is 20000)             *)
(*   EMA decay               1e-5              (0.999 is 99900)            *)
(*   parameter values        1e-4              (1.0 is 10000)              *)
(***************************************************************************)
EXTENDS Integers, Sequences, FiniteSets, TLC

VARIABLES
    args,             \* the arguments of train and the environment it runs in
    pc,               \* position of train's control flow
    epoch,            \* the loop variable of `for epoch in range(num_epochs)`
    batch_idx,        \* index of the next batch of the epoch's batch loop
    n,                \* samples seen in this epoch's batch loop
    step_log,         \* batch indices of this epoch after which a step was triggered
    opt_steps,        \* optimizer.step() calls actually applied to the live parameters
    ema_updates,      \* ModelEMA.update calls
    ema,              \* the ModelEMA object: its fields and the decay of its last update
    test_acc,         \* the epoch's live validation accuracy
    test_loss,        \* the epoch's live validation loss
    ema_test_acc,     \* the epoch's EMA validation accuracy
    lr,               \* optimizer.param_groups[g]['lr']
    initial_lr,       \* optimizer.param_groups[g]['initial_lr']
    plateau,          \* state of plateau_scheduler
    cosine_steps,     \* cosine_scheduler.step calls made by train
    plateau_steps,    \* plateau_scheduler.step calls made by train
    rebases,          \* executions of the re-basing block of train
    current_scheduler,\* the local of that name
    phases,           \* the phases of the current epoch executed so far
    emitted,          \* epochs whose scalars were handed to the writer
    best_acc,         \* the local of that name
    best_metric,      \* the local of that name
    no_improve,       \* the local of that name
    best_live_seen,   \* history: max of the best_acc argument and the live accuracies of the finished epochs
    best_ema_seen,    \* history: max of the best_acc argument and the EMA accuracies of the finished epochs
    wrote_live,       \* best_model.pth was written in the current epoch
    wrote_ema,        \* best_model_ema.pth was written in the current epoch
    files,            \* checkpoint files on disk
    returned,         \* the value train returned
    train_iter,       \* the training stream: its batches, in order
    train_l_sum,      \* the local of that name
    train_acc_sum,    \* the local of that name
    live,             \* the parameters of net, by name
    shadow,           \* the parameters of ema.ema, by name
    moments,          \* the optimizer's per-parameter state
    grads,            \* the .grad buffers: the micro-batch gradients accumulated in them
    used,             \* the micro-batches of this epoch whose gradients reached a step trigger
    scaler,           \* the GradScaler
    net_training,     \* net.training
    ema_mode,         \* ema.ema: its training flag and the requires_grad of its parameters
    error,            \* the exception raised by train or evaluate_accuracy, if any
    ev                \* the frame of a call of evaluate_accuracy

vars == <<args, pc, epoch, batch_idx, n, step_log, opt_steps, ema_updates, ema,
          test_acc, test_loss, ema_test_acc, lr, initial_lr, plateau, cosine_steps,
          plateau_steps, rebases, current_scheduler, phases, emitted, best_acc,
          best_metric, no_improve, best_live_seen, best_ema_seen, wrote_live,
          wrote_ema, files, returned, train_iter, train_l_sum, train_acc_sum, live,
          shadow, moments, grads, used, scaler, net_training, ema_mode, error, ev>>

\* The live model, the shadow, the optimizer's state, the gradients, the scaler.
paramvars == <<live, shadow, moments, grads, used, scaler>>

\* The running sums of the batch loop.
sumvars == <<train_l_sum, train_acc_sum>>

\* The mode flags of the two models.
modevars == <<net_training, ema_mode>>

\* The state of train other than its position.
trainvars == <<args, epoch, batch_idx, n, step_log, opt_steps, ema_updates, ema,
               test_acc, test_loss, ema_test_acc, lr, initial_lr, plateau,
               cosine_steps, plateau_steps, rebases, current_scheduler, phases,
               emitted, best_acc, best_metric, no_improve, best_live_seen,
               best_ema_seen, wrote_live, wrote_ema, files, returned>>

(***************************************************************************)
(* Bounds of the model.                                                    *)
(***************************************************************************)
MaxEpochs == 17
MaxBatches == 3
MaxAccum == 3
MaxDecayEpoch == 52
MaxEmaCalls == 2
MaxLiveSteps == 1
MaxEvalBatches == 4
MaxEvalCalls == 2
MaxSchedEpochs == 34

(***************************************************************************)
(* Program constants.                                                      *)
(***************************************************************************)
patience == 12
switch_epoch == 12
T_0 == 12
eta_min == 1000
plateau_patience == 3
min_decay == 99500
growth_interval == 2000
default_decay == 99900
default_total_epochs == 50

Max(a, b) == IF a >= b THEN a ELSE b

Min(a, b) == IF a <= b THEN a ELSE b

\* Values the validation metrics are drawn from (hundredths).
AccVals == {0, 50, 100}

LossVals == {50, 600}

\* A value no assignment has produced yet (an unbound local).
Unbound == 0 - 1

\* float('-inf'), the initial best of a mode='max' plateau scheduler.
NegInf == 0 - 1000000

(***************************************************************************)
(* ModelEMA                                                                *)
(***************************************************************************)
\* ModelEMA.__init__: the fields of a new tracker (decay is the decay of the
\* last update; none has run yet).
ModelEMA(decay, total_epochs) ==
    [initial_decay |-> decay, min_decay |-> min_decay,
     total_epochs |-> total_epochs, decay |-> Unbound]

\* Mutant: the decay is not clamped at min_decay.
Decay_NoClamp(e, current_epoch) ==
    e.initial_decay
      - ((e.initial_decay - e.min_decay) * current_epoch) \div e.total_epochs

\* The decay ModelEMA.update computes for current_epoch:
\*   decay = initial_decay - (initial_decay - min_decay) * (current_epoch / total_epochs)
\*   decay = max(decay, min_decay)
Decay(e, current_epoch) ==
    Max(e.initial_decay
          - ((e.initial_decay - e.min_decay) * current_epoch) \div e.total_epochs,
        e.min_decay)

\* ModelEMA.update(model, current_epoch), as far as the tracker's fields go.
EmaUpdate(e, current_epoch) == [e EXCEPT !.decay = Decay(e, current_epoch)]

\* The parameters of the network, by name, and the values net starts with
\* (a product with a decay stays below 2^31).
ParamNames == {"features", "classifier"}

InitialParams == [p \in ParamNames |-> IF p = "features" THEN 10000 ELSE 20000]

\* ModelEMA.__init__, the shadow: deepcopy(model), then ema_p.copy_(model_p)
\* for every pair of parameters (lines 45, 53-55).
ShadowInit(model) == [p \in DOMAIN model |-> model[p]]

\* Mutant: the weights of the shadow and of the live value are exchanged.
UpdateParams_Swapped(sh, model, decay) ==
    [ema |-> [p \in DOMAIN sh |->
                (decay * model[p] + (100000 - decay) * sh[p]) \div 100000],
     model |-> model]

\* Mutant: the averaged value is copied into the live parameter too.
UpdateParams_WritesLive(sh, model, decay) ==
    [ema |-> [p \in DOMAIN sh |->
                (decay * sh[p] + (100000 - decay) * model[p]) \div 100000],
     model |-> [p \in DOMAIN model |->
                (decay * sh[p] + (100000 - decay) * model[p]) \div 100000]]

\* ModelEMA.update, the parameters (lines 61-67): for every pair,
\* ema_param.mul_(decay).add_(model_param, alpha=1 - decay). The two models
\* after the call.
UpdateParams(sh, model, decay) ==
    [ema |-> [p \in DOMAIN sh |->
                (decay * sh[p] + (100000 - decay) * model[p]) \div 100000],
     model |-> model]

\* GradScaler(): enabled where CUDA is available, init_scale 2^16.
GradScaler(cuda) == [enabled |-> cuda, scale |-> 65536, growth_tracker |-> 0]

\* No call of evaluate_accuracy has been made.
NoCall ==
    [at |-> "idle", calls |-> 0, use_ema |-> FALSE, has_ema |-> FALSE,
     model |-> "none", stream |-> <<>>, i |-> 0, acc_sum |-> 0, loss_sum |-> 0,
     n |-> 0]

(***************************************************************************)
(* The batch loop's step boundary                                          *)
(***************************************************************************)
\* Mutant: the final batch of the epoch does not force a step.
StepTrigger_NoFlush(i, accum_steps, total_batches) == (i + 1) % accum_steps = 0

\* if (batch_idx + 1) % accum_steps == 0 or (batch_idx + 1) == total_batches
StepTrigger(i, accum_steps, total_batches) ==
    \/ (i + 1) % accum_steps = 0
    \/ (i + 1) = total_batches

\* Mutant: the optimizer steps also after an overflow.
ScalerStep_Always(found_inf) == 1

\* scaler.step(optimizer): GradScaler calls optimizer.step() unless it is enabled
\* and found an inf/NaN gradient. The number of steps it applies.
ScalerStep(found_inf) == IF found_inf THEN 0 ELSE 1

\* GradScaler() is enabled only where CUDA is available; a disabled scaler never
\* reports an overflow.
FoundInfOutcomes(cuda) == IF cuda THEN BOOLEAN ELSE {FALSE}

\* scaler.update() with the defaults backoff_factor 0.5 and growth_factor 2: a
\* disabled scaler does nothing; an overflow halves the scale, growth_interval
\* steps in a row without one double it.
ScalerUpdate(sc, found_inf) ==
    IF ~sc.enabled THEN sc
    ELSE IF found_inf
    THEN [sc EXCEPT !.scale = sc.scale \div 2, !.growth_tracker = 0]
    ELSE IF sc.growth_tracker + 1 = growth_interval
    THEN [sc EXCEPT !.scale = sc.scale * 2, !.growth_tracker = 0]
    ELSE [sc EXCEPT !.growth_tracker = sc.growth_tracker + 1]

\* Mutant: a batch counts as one sample.
Samples_One(b) == 1

\* y.size(0), the samples of a batch (lines 232, 234 and 180, 181).
Samples(b) == b.size

\* l = loss(y_hat, y) / accum_steps; unscaled_loss = l * accum_steps (lines 216,
\* 218), in hundredths.
UnscaledLoss(batch_loss, accum_steps) == (batch_loss \div accum_steps) * accum_steps

\* scaler.scale(l).backward() in epoch e on batch i (line 219): the gradient of
\* the batch, divided by accum_steps, is added to the buffer.
Backward(g, e, i, accum_steps) ==
    Append(g, [epoch |-> e, batch |-> i, div |-> accum_steps])

\* Mutant: the buffer is not cleared.
ZeroGrad_Keep(g) == g

\* optimizer.zero_grad() (line 227).
ZeroGrad(g) == <<>>

\* optimizer.step() on the gradients of `window`: the parameters move and the
\* optimizer's step count grows.
OptimizerStep(params, mom, window) ==
    [params |-> [p \in DOMAIN params |-> params[p] - Len(window)],
     moments |-> [p \in DOMAIN mom |-> mom[p] + 1]]

\* Mutant: net.train() is missing.
TrainMode_Keep(training) == training

\* net.train() (line 200).
TrainMode(training) == TRUE

\* model.eval() (line 170).
EvalMode(training) == FALSE

\* Mutant: the live model is evaluated whatever use_ema says.
Selected_Live(use_ema) == "net"

\* The model evaluate_accuracy evaluates (lines 163-168).
Selected(use_ema) == IF use_ema THEN "ema" ELSE "net"

(***************************************************************************)
(* evaluate_accuracy                                                       *)
(***************************************************************************)
\* The outcomes of evaluate_accuracy on a stream of `samples` samples: the
\* ValueError of a missing tracker, the ZeroDivisionError of acc_sum / n with
\* n = 0, or a pair (accuracy, loss).
evaluate_accuracy(samples, use_ema, has_ema) ==
    IF use_ema /\ ~has_ema
    THEN {[err |-> "ValueError", acc |-> Unbound, loss |-> Unbound]}
    ELSE IF samples = 0
    THEN {[err |-> "ZeroDivisionError", acc |-> Unbound, loss |-> Unbound]}
    ELSE {[err |-> "none", acc |-> a, loss |-> l] : a \in AccVals, l \in LossVals}

(***************************************************************************)
(* The schedulers                                                          *)
(***************************************************************************)
\* The learning rates the optimizer is built with (1e-9).
configured_lr == <<20000, 500000, 1000000>>

Groups == DOMAIN configured_lr

\* 1000 * (1 + cos(pi * k / T_0)) / 2 for k = 0 .. T_0 - 1, at index k + 1.
CosFrac == <<1000, 983, 933, 854, 750, 629, 500, 371, 250, 146, 67, 17>>

\* cosine_scheduler.step(e) for e < T_0 (T_cur = e, T_i = T_0):
\*   lr = eta_min + (base_lr - eta_min) * (1 + cos(pi * T_cur / T_i)) / 2
CosineLR(base_lr, e) == eta_min + ((base_lr - eta_min) * CosFrac[e + 1]) \div 1000

CosineStep(e) == [g \in Groups |-> CosineLR(configured_lr[g], e)]

\* ReduceLROnPlateau(mode='max', threshold=0.001, threshold_mode='rel'):
\* is_better(a, best) is a > best * (1 + threshold); best starts at -inf.
IsBetter(a, best) == best = NegInf \/ a * 1000 > best * 1001

\* ReduceLROnPlateau._reduce_lr with factor=0.3, min_lr=0, eps=1e-8: the new rate
\* of one group.
ReduceLR(old_lr) ==
    LET new_lr == Max((old_lr * 3) \div 10, 0)
    IN  IF old_lr - new_lr > 10 THEN new_lr ELSE old_lr

\* Mutant: the rates are reduced at the patience-th bad call already.
PlateauStep_AtPatience(p, rates, metrics) ==
    LET better == IsBetter(metrics, p.best)
        best == IF better THEN metrics ELSE p.best
        bad == IF better THEN 0 ELSE p.num_bad_epochs + 1
        reduce == bad >= plateau_patience
    IN  [sched |-> [p EXCEPT !.best = best,
                             !.num_bad_epochs = IF reduce THEN 0 ELSE bad],
         lr |-> IF reduce THEN [g \in Groups |-> ReduceLR(rates[g])] ELSE rates]

\* plateau_scheduler.step(metrics) with cooldown=0: the scheduler's state and the
\* optimizer's rates after the call.
PlateauStep(p, rates, metrics) ==
    LET better == IsBetter(metrics, p.best)
        best == IF better THEN metrics ELSE p.best
        bad == IF better THEN 0 ELSE p.num_bad_epochs + 1
        reduce == bad > plateau_patience
    IN  [sched |-> [p EXCEPT !.best = best,
                             !.num_bad_epochs = IF reduce THEN 0 ELSE bad],
         lr |-> IF reduce THEN [g \in Groups |-> ReduceLR(rates[g])] ELSE rates]

(***************************************************************************)
(* Checkpoints and early stopping                                          *)
(***************************************************************************)
\* Mutant: the comparison is not strict.
Improves_NonStrict(acc, best) == acc >= best

\* Mutant: the comparison is reversed.
Improves_Reversed(acc, best) == acc < best

\* Mutant: the checkpoint is written whatever the accuracy.
Improves_Always(acc, best) == TRUE

\* if test_acc > best_acc  (and likewise if ema_test_acc > best_acc)
Improves(acc, best) == acc > best

\* current_metric = test_acc * 0.8 + (1 - test_loss) * 0.2   (thousandths)
CurrentMetric(acc, loss) == 8 * acc + 2 * (100 - loss)

\* Mutant: an improvement does not reset the counter.
EarlyStop_NoReset(bm, ni, current_metric, pat) ==
    IF current_metric > bm
    THEN [best_metric |-> current_metric, no_improve |-> ni, stop |-> FALSE]
    ELSE [best_metric |-> bm, no_improve |-> ni + 1, stop |-> ni + 1 >= pat]

\* Mutant: the best composite is overwritten by every epoch's composite.
EarlyStop_AlwaysRecord(bm, ni, current_metric, pat) ==
    IF current_metric > bm
    THEN [best_metric |-> current_metric, no_improve |-> 0, stop |-> FALSE]
    ELSE [best_metric |-> current_metric, no_improve |-> ni + 1,
          stop |-> ni + 1 >= pat]

\* The early-stop block of train for one epoch, with the threshold `pat`.
EarlyStop(bm, ni, current_metric, pat) ==
    IF current_metric > bm
    THEN [best_metric |-> current_metric, no_improve |-> 0, stop |-> FALSE]
    ELSE [best_metric |-> bm, no_improve |-> ni + 1, stop |-> ni + 1 >= pat]

(***************************************************************************)
(* The arguments of train                                                  *)
(***************************************************************************)
\* num_epochs, len(train_iter), accum_steps, the samples of test_iter, whether
\* CUDA is available (GradScaler enabled) and the best_acc argument.
Args(ne, tb, acc, vs, cu, ba) ==
    [num_epochs |-> ne, total_batches |-> tb, accum_steps |-> acc,
     val_samples |-> vs, cuda |-> cu, best_acc |-> ba]

\* One-epoch runs over every shape of the batch loop.
LoopArgs ==
    {Args(1, tb, acc, 1, cu, 0) :
        tb \in 0 .. MaxBatches, acc \in 1 .. MaxAccum, cu \in BOOLEAN}

\* The run of the accumulation example: accum_steps = 4 and a 10-batch epoch.
ExampleArgs == {Args(1, 10, 4, 1, FALSE, 0)}

\* Short runs: empty validation stream, no epoch at all, a best_acc argument.
ShortArgs ==
    {Args(ne, 1, 1, vs, FALSE, ba) : ne \in 0 .. 2, vs \in {0, 1}, ba \in {0, 50}}

\* Long runs, through the scheduler switch and the early-stop threshold.
LongArgs == {Args(ne, 1, 1, 1, FALSE, 0) : ne \in {switch_epoch, MaxEpochs}}

ArgsSet == LoopArgs \cup ExampleArgs \cup ShortArgs \cup LongArgs

(***************************************************************************)
(* train                                                                   *)
(***************************************************************************)
\* The state after lines 189-197 of train, and after the module built the
\* optimizer and the two schedulers (lines 124-148).
InitWith(a, tracker, start) ==
    /\ args = a
    /\ pc = start
    /\ epoch = 0
    /\ batch_idx = 0
    /\ n = 0
    /\ step_log = {}
    /\ opt_steps = 0
    /\ ema_updates = 0
    /\ ema = tracker
    /\ test_acc = Unbound
    /\ test_loss = Unbound
    /\ ema_test_acc = Unbound
    /\ lr = configured_lr
    /\ initial_lr = configured_lr
    /\ plateau = [best |-> NegInf, num_bad_epochs |-> 0, base_lrs |-> <<>>]
    /\ cosine_steps = 0
    /\ plateau_steps = 0
    /\ rebases = 0
    /\ current_scheduler = "cosine"
    /\ phases = <<>>
    /\ emitted = 0
    /\ best_acc = a.best_acc
    /\ best_metric = 0
    /\ no_improve = 0
    /\ best_live_seen = a.best_acc
    /\ best_ema_seen = a.best_acc
    /\ wrote_live = FALSE
    /\ wrote_ema = FALSE
    /\ files = {}
    /\ returned = Unbound

\* The rest of that state: the stream, the two models (line 194 copies the
\* live parameters into the shadow, in inference mode and without gradient
\* tracking), the optimizer, the scaler (line 193).
InitRest(a, stream, model) ==
    /\ train_iter = stream
    /\ train_l_sum = 0
    /\ train_acc_sum = 0
    /\ live = model
    /\ shadow = ShadowInit(model)
    /\ moments = [p \in DOMAIN model |-> 0]
    /\ grads = <<>>
    /\ used = <<>>
    /\ scaler = GradScaler(a.cuda)
    /\ net_training = TRUE
    /\ ema_mode = [training |-> FALSE, requires_grad |-> FALSE]
    /\ error = "none"
    /\ ev = NoCall

\* A batch: its samples, the correct predictions among them and its mean loss
\* (hundredths; a multiple of 12, so that dividing by accum_steps is exact).
Batch(size, correct, batch_loss) ==
    [size |-> size, correct |-> correct, loss |-> batch_loss]

BatchKinds == <<Batch(8, 8, 60), Batch(8, 4, 120), Batch(8, 0, 60), Batch(6, 3, 120)>>

\* The stream of tb batches that starts at the k-th kind: full batches and a
\* smaller trailing one.
Stream(tb, k) == [i \in 1 .. tb |-> BatchKinds[((i - 1 + k) % Len(BatchKinds)) + 1]]

\* The streams tried with the arguments a (one for the long runs).
Streams(a) ==
    {Stream(a.total_batches, k) :
        k \in IF a.num_epochs <= 2 THEN 0 .. Len(BatchKinds) - 1 ELSE {0}}

\* ema = ModelEMA(net)   (line 194)
Init ==
    \E a \in ArgsSet :
        /\ InitWith(a, ModelEMA(default_decay, default_total_epochs), "for_epoch")
        /\ \E stream \in Streams(a) : InitRest(a, stream, InitialParams)

\* Mutant: the scalars are emitted before the scheduler is stepped.
Successor_MetricsFirst(p) ==
    CASE p = "for_epoch" -> "batch"
      [] p = "batch" -> "eval_live"
      [] p = "eval_live" -> "eval_ema"
      [] p = "eval_ema" -> "metrics"
      [] p = "metrics" -> "sched"
      [] p = "sched" -> "ckpt_live"
      [] p = "ckpt_live" -> "ckpt_ema"
      [] p = "ckpt_ema" -> "early_stop"
      [] p = "early_stop" -> "for_epoch"

\* The statement order of the body of the epoch loop (lines 199-315): the
\* position that follows position p when p neither raises nor breaks.
Successor(p) ==
    CASE p = "for_epoch" -> "batch"
      [] p = "batch" -> "eval_live"
      [] p = "eval_live" -> "eval_ema"
      [] p = "eval_ema" -> "sched"
      [] p = "sched" -> "metrics"
      [] p = "metrics" -> "ckpt_live"
      [] p = "ckpt_live" -> "ckpt_ema"
      [] p = "ckpt_ema" -> "early_stop"
      [] p = "early_stop" -> "for_epoch"

\* for epoch in range(num_epochs): the head of an epoch (lines 199-207). The
\* per-epoch locals of the previous epoch are dead here (each is assigned
\* before it is read again) and the model forgets them.
EpochBegin ==
    /\ pc = "for_epoch"
    /\ epoch < args.num_epochs
    /\ pc' = Successor(pc)
    /\ batch_idx' = 0
    /\ n' = 0
    /\ step_log' = {}
    /\ phases' = <<>>
    /\ test_acc' = Unbound
    /\ test_loss' = Unbound
    /\ ema_test_acc' = Unbound
    /\ wrote_live' = FALSE
    /\ wrote_ema' = FALSE
    /\ net_training' = TrainMode(net_training)
    /\ train_l_sum' = 0
    /\ train_acc_sum' = 0
    /\ used' = <<>>
    /\ UNCHANGED <<args, epoch, opt_steps, ema_updates, ema, lr, initial_lr, plateau,
                   cosine_steps, plateau_steps, rebases, current_scheduler, emitted,
                   best_acc, best_metric, no_improve, best_live_seen, best_ema_seen,
                   files, returned>>
    /\ UNCHANGED <<train_iter, live, shadow, moments, grads, scaler, ema_mode, error,
                   ev>>

\* One iteration of the batch loop (lines 209-256): forward, backward, and at a
\* step boundary unscale, clip, scaler.step, scaler.update, zero_grad, ema.update.
TrainBatch ==
    /\ pc = "batch"
    /\ batch_idx < args.total_batches
    /\ LET b == train_iter[batch_idx + 1]
           g == Backward(grads, epoch, batch_idx, args.accum_steps)
       IN  /\ IF StepTrigger(batch_idx, args.accum_steps, args.total_batches)
              THEN \E found_inf \in FoundInfOutcomes(args.cuda) :
                     LET stepped == IF ScalerStep(found_inf) = 1
                                    THEN OptimizerStep(live, moments, g)
                                    ELSE [params |-> live, moments |-> moments]
                         r == UpdateParams(shadow, stepped.params,
                                           Decay(ema, epoch))
                     IN  /\ opt_steps' = opt_steps + ScalerStep(found_inf)
                         /\ moments' = stepped.moments
                         /\ scaler' = ScalerUpdate(scaler, found_inf)
                         /\ grads' = ZeroGrad(g)
                         /\ used' = Append(used, [window |-> g,
                                                  overflow |-> found_inf])
                         /\ ema_updates' = ema_updates + 1
                         /\ ema' = EmaUpdate(ema, epoch)
                         /\ shadow' = r.ema
                         /\ live' = r.model
                         /\ step_log' = step_log \cup {batch_idx}
              ELSE /\ grads' = g
                   /\ UNCHANGED <<opt_steps, ema_updates, ema, step_log, live, shadow,
                                  moments, scaler, used>>
           /\ train_l_sum' = train_l_sum
                                + UnscaledLoss(b.loss, args.accum_steps) * Samples(b)
           /\ train_acc_sum' = train_acc_sum + b.correct
           /\ n' = n + Samples(b)
    /\ batch_idx' = batch_idx + 1
    /\ UNCHANGED <<args, pc, epoch, test_acc, test_loss, ema_test_acc, lr, initial_lr,
                   plateau, cosine_steps, plateau_steps, rebases, current_scheduler,
                   phases, emitted, best_acc, best_metric, no_improve, best_live_seen,
                   best_ema_seen, wrote_live, wrote_ema, files, returned>>
    /\ UNCHANGED <<train_iter, modevars, error, ev>>

\* The batch loop is exhausted (lines 258-260).
BatchLoopEnd ==
    /\ pc = "batch"
    /\ batch_idx = args.total_batches
    /\ pc' = Successor(pc)
    /\ phases' = Append(phases, "batches")
    /\ UNCHANGED <<args, epoch, batch_idx, n, step_log, opt_steps, ema_updates, ema,
                   test_acc, test_loss, ema_test_acc, lr, initial_lr, plateau,
                   cosine_steps, plateau_steps, rebases, current_scheduler, emitted,
                   best_acc, best_metric, no_improve, best_live_seen, best_ema_seen,
                   wrote_live, wrote_ema, files, returned>>
    /\ UNCHANGED <<train_iter, sumvars, paramvars, modevars, error, ev>>

\* Lines 263-265: evaluate the live model, then print train_l_sum / n, which
\* raises ZeroDivisionError when the batch loop saw no sample.
EvalLive ==
    /\ pc = "eval_live"
    /\ \E r \in evaluate_accuracy(args.val_samples, FALSE, TRUE) :
          IF r.err # "none"
          THEN /\ pc' = "error"
               /\ error' = r.err
               /\ UNCHANGED <<test_acc, test_loss, phases>>
          ELSE /\ test_acc' = r.acc
               /\ test_loss' = r.loss
               /\ phases' = Append(phases, "eval_live")
               /\ pc' = IF n = 0 THEN "error" ELSE Successor(pc)
               /\ error' = IF n = 0 THEN "ZeroDivisionError" ELSE error
    /\ net_training' = IF Selected(FALSE) = "net"
                       THEN EvalMode(net_training) ELSE net_training
    /\ ema_mode' = IF Selected(FALSE) = "ema"
                   THEN [ema_mode EXCEPT !.training = EvalMode(ema_mode.training)]
                   ELSE ema_mode
    /\ UNCHANGED <<args, epoch, batch_idx, n, step_log, opt_steps, ema_updates, ema,
                   ema_test_acc, lr, initial_lr, plateau, cosine_steps, plateau_steps,
                   rebases, current_scheduler, emitted, best_acc, best_metric,
                   no_improve, best_live_seen, best_ema_seen, wrote_live, wrote_ema,
                   files, returned>>
    /\ UNCHANGED <<train_iter, sumvars, paramvars, ev>>

\* Lines 266-267: evaluate the EMA model (its loss is only printed and logged).
EvalEma ==
    /\ pc = "eval_ema"
    /\ \E r \in evaluate_accuracy(args.val_samples, TRUE, TRUE) :
          IF r.err # "none"
          THEN /\ pc' = "error"
               /\ error' = r.err
               /\ UNCHANGED <<ema_test_acc, phases>>
          ELSE /\ ema_test_acc' = r.acc
               /\ phases' = Append(phases, "eval_ema")
               /\ pc' = Successor(pc)
               /\ UNCHANGED error
    /\ net_training' = IF Selected(TRUE) = "net"
                       THEN EvalMode(net_training) ELSE net_training
    /\ ema_mode' = IF Selected(TRUE) = "ema"
                   THEN [ema_mode EXCEPT !.training = EvalMode(ema_mode.training)]
                   ELSE ema_mode
    /\ UNCHANGED <<args, epoch, batch_idx, n, step_log, opt_steps, ema_updates, ema,
                   test_acc, test_loss, lr, initial_lr, plateau, cosine_steps,
                   plateau_steps, rebases, current_scheduler, emitted, best_acc,
                   best_metric, no_improve, best_live_seen, best_ema_seen, wrote_live,
                   wrote_ema, files, returned>>
    /\ UNCHANGED <<train_iter, sumvars, paramvars, ev>>

\* Mutant: the switch happens one epoch early.
ActiveScheduler_Early(e) == IF e < switch_epoch - 1 THEN "cosine" ELSE "plateau"

\* if epoch < 12: ... else: ...   (line 270)
ActiveScheduler(e) == IF e < switch_epoch THEN "cosine" ELSE "plateau"

\* if epoch == 12   (line 274)
AtSwitch(e) == e = switch_epoch

\* Mutant: the baseline is reset to the rates the optimizer was built with.
Rebase_Configured(rates) == configured_lr

\* The baseline the re-basing block gives the groups: group['lr'] (lines 276-278).
Rebase(rates) == rates

\* Lines 269-280: the scheduler block of epoch e, given the epoch's live
\* validation accuracy.
StepSchedulers(e, metrics) ==
    IF ActiveScheduler(e) = "cosine"
    THEN /\ lr' = CosineStep(e)
         /\ cosine_steps' = cosine_steps + 1
         /\ current_scheduler' = "cosine"
         /\ UNCHANGED <<initial_lr, plateau, plateau_steps, rebases>>
    ELSE LET baseline == Rebase(lr)
             p == IF AtSwitch(e)
                  THEN [plateau EXCEPT !.base_lrs = baseline]
                  ELSE plateau
             r == PlateauStep(p, lr, metrics)
         IN  /\ initial_lr' = IF AtSwitch(e) THEN baseline ELSE initial_lr
             /\ rebases' = IF AtSwitch(e) THEN rebases + 1 ELSE rebases
             /\ plateau' = r.sched
             /\ lr' = r.lr
             /\ plateau_steps' = plateau_steps + 1
             /\ current_scheduler' = "plateau"
             /\ UNCHANGED cosine_steps

\* Lines 269-283: step the scheduler of this epoch.
SchedulerStep ==
    /\ pc = "sched"
    /\ StepSchedulers(epoch, test_acc)
    /\ phases' = Append(phases, "scheduler")
    /\ pc' = Successor(pc)
    /\ UNCHANGED <<args, epoch, batch_idx, n, step_log, opt_steps, ema_updates, ema,
                   test_acc, test_loss, ema_test_acc, emitted, best_acc, best_metric,
                   no_improve, best_live_seen, best_ema_seen, wrote_live, wrote_ema,
                   files, returned>>
    /\ UNCHANGED <<train_iter, sumvars, paramvars, modevars, error, ev>>

\* Lines 285-293: hand the epoch's scalars to the writer.
EmitMetrics ==
    /\ pc = "metrics"
    /\ emitted' = emitted + 1
    /\ phases' = Append(phases, "metrics")
    /\ pc' = Successor(pc)
    /\ UNCHANGED <<args, epoch, batch_idx, n, step_log, opt_steps, ema_updates, ema,
                   test_acc, test_loss, ema_test_acc, lr, initial_lr, plateau,
                   cosine_steps, plateau_steps, rebases, current_scheduler, best_acc,
                   best_metric, no_improve, best_live_seen, best_ema_seen, wrote_live,
                   wrote_ema, files, returned>>
    /\ UNCHANGED <<train_iter, sumvars, paramvars, modevars, error, ev>>

\* Lines 296-299: the live checkpoint.
CheckpointLive ==
    /\ pc = "ckpt_live"
    /\ IF Improves(test_acc, best_acc)
       THEN /\ best_acc' = test_acc
            /\ wrote_live' = TRUE
            /\ files' = files \cup {"best_model.pth"}
       ELSE UNCHANGED <<best_acc, wrote_live, files>>
    /\ phases' = Append(phases, "ckpt_live")
    /\ pc' = Successor(pc)
    /\ UNCHANGED <<args, epoch, batch_idx, n, step_log, opt_steps, ema_updates, ema,
                   test_acc, test_loss, ema_test_acc, lr, initial_lr, plateau,
                   cosine_steps, plateau_steps, rebases, current_scheduler, emitted,
                   best_metric, no_improve, best_live_seen, best_ema_seen, wrote_ema,
                   returned>>
    /\ UNCHANGED <<train_iter, sumvars, paramvars, modevars, error, ev>>

\* Lines 301-304: the EMA checkpoint.
CheckpointEma ==
    /\ pc = "ckpt_ema"
    /\ IF Improves(ema_test_acc, best_acc)
       THEN /\ best_acc' = ema_test_acc
            /\ wrote_ema' = TRUE
            /\ files' = files \cup {"best_model_ema.pth"}
       ELSE UNCHANGED <<best_acc, wrote_ema, files>>
    /\ phases' = Append(phases, "ckpt_ema")
    /\ pc' = Successor(pc)
    /\ UNCHANGED <<args, epoch, batch_idx, n, step_log, opt_steps, ema_updates, ema,
                   test_acc, test_loss, ema_test_acc, lr, initial_lr, plateau,
                   cosine_steps, plateau_steps, rebases, current_scheduler, emitted,
                   best_metric, no_improve, best_live_seen, best_ema_seen, wrote_live,
                   returned>>
    /\ UNCHANGED <<train_iter, sumvars, paramvars, modevars, error, ev>>

\* Lines 306-319: the early-stop check; `break` leaves the epoch loop, otherwise
\* the loop goes on to the next epoch.
EarlyStopCheck ==
    /\ pc = "early_stop"
    /\ LET r == EarlyStop(best_metric, no_improve,
                          CurrentMetric(test_acc, test_loss), patience)
       IN  /\ best_metric' = r.best_metric
           /\ no_improve' = r.no_improve
           /\ pc' = IF r.stop THEN "exit" ELSE Successor(pc)
           /\ epoch' = IF r.stop THEN epoch ELSE epoch + 1
    /\ phases' = Append(phases, "early_stop")
    /\ best_live_seen' = Max(best_live_seen, test_acc)
    /\ best_ema_seen' = Max(best_ema_seen, ema_test_acc)
    /\ UNCHANGED <<args, batch_idx, n, step_log, opt_steps, ema_updates, ema,
                   test_acc, test_loss, ema_test_acc, lr, initial_lr, plateau,
                   cosine_steps, plateau_steps, rebases, current_scheduler, emitted,
                   best_acc, wrote_live, wrote_ema, files, returned>>
    /\ UNCHANGED <<train_iter, sumvars, paramvars, modevars, error, ev>>

\* The epoch loop has ended, by exhaustion or by break.
LoopOver == pc = "exit" \/ (pc = "for_epoch" /\ epoch >= args.num_epochs)

\* Lines 321-323: writer.close() and return best_acc.
Return ==
    /\ LoopOver
    /\ returned' = best_acc
    /\ pc' = "done"
    /\ UNCHANGED <<args, epoch, batch_idx, n, step_log, opt_steps, ema_updates, ema,
                   test_acc, test_loss, ema_test_acc, lr, initial_lr, plateau,
                   cosine_steps, plateau_steps, rebases, current_scheduler, phases,
                   emitted, best_acc, best_metric, no_improve, best_live_seen,
                   best_ema_seen, wrote_live, wrote_ema, files>>
    /\ UNCHANGED <<train_iter, sumvars, paramvars, modevars, error, ev>>

Next ==
    \/ EpochBegin
    \/ TrainBatch
    \/ BatchLoopEnd
    \/ EvalLive
    \/ EvalEma
    \/ SchedulerStep
    \/ EmitMetrics
    \/ CheckpointLive
    \/ CheckpointEma
    \/ EarlyStopCheck
    \/ Return

Spec == Init /\ [][Next]_vars

\* train is one sequential thread: while a step is possible, one is taken.
FairSpec == Init /\ [][Next]_vars /\ WF_vars(Next)

(***************************************************************************)
(* ModelEMA on its own: a tracker and calls of update                      *)
(***************************************************************************)
\* Constructor arguments: decay at or above min_decay (train uses the default
\* 0.999) and total_epochs for which the interpolation is exact in 1e-5.
DecayArgs == {min_decay, default_decay, 100000}

TotalEpochsArgs == {1, 2, default_total_epochs}

InitEMA ==
    \E d \in DecayArgs, t \in TotalEpochsArgs :
        /\ InitWith(Args(0, 0, 1, 0, FALSE, 0), ModelEMA(d, t), "ema")
        /\ InitRest(Args(0, 0, 1, 0, FALSE, 0), <<>>, InitialParams)

\* ema.update(model, current_epoch) for any epoch; `epoch` holds the argument.
UpdateCall ==
    /\ pc = "ema"
    /\ ema_updates < MaxEmaCalls
    /\ \E current_epoch \in 0 .. MaxDecayEpoch :
          /\ ema' = EmaUpdate(ema, current_epoch)
          /\ epoch' = current_epoch
    /\ LET r == UpdateParams(shadow, live, ema'.decay)
       IN  shadow' = r.ema /\ live' = r.model
    /\ ema_updates' = ema_updates + 1
    /\ UNCHANGED <<args, pc, batch_idx, n, step_log, opt_steps, test_acc, test_loss,
                   ema_test_acc, lr, initial_lr, plateau, cosine_steps, plateau_steps,
                   rebases, current_scheduler, phases, emitted, best_acc, best_metric,
                   no_improve, best_live_seen, best_ema_seen, wrote_live, wrote_ema,
                   files, returned>>
    /\ UNCHANGED <<train_iter, sumvars, moments, grads, used, scaler, modevars, error,
                   ev>>

\* The parameters after optimizer steps between two updates (here: halved).
LiveVals(params) == [p \in DOMAIN params |-> params[p] \div 2]

\* Between two updates the optimizer changes the live parameters.
LiveChange ==
    /\ pc = "ema"
    /\ opt_steps < MaxLiveSteps
    /\ live' = LiveVals(live)
    /\ opt_steps' = opt_steps + 1
    /\ UNCHANGED <<args, pc, epoch, batch_idx, n, step_log, ema_updates, ema, test_acc,
                   test_loss, ema_test_acc, lr, initial_lr, plateau, cosine_steps,
                   plateau_steps, rebases, current_scheduler, phases, emitted, best_acc,
                   best_metric, no_improve, best_live_seen, best_ema_seen, wrote_live,
                   wrote_ema, files, returned>>
    /\ UNCHANGED <<train_iter, sumvars, shadow, moments, grads, used, scaler, modevars,
                   error, ev>>

NextEMA == UpdateCall \/ LiveChange

SpecEMA == InitEMA /\ [][NextEMA]_vars

(***************************************************************************)
(* evaluate_accuracy, batch by batch                                       *)
(***************************************************************************)
\* The validation streams: up to MaxEvalBatches batches, full or smaller.
EvalStreams ==
    UNION {[1 .. k -> {Batch(8, 8, 60), Batch(8, 4, 120), Batch(6, 3, 120)}] :
             k \in 0 .. MaxEvalBatches}

InitEval ==
    /\ InitWith(Args(0, 0, 1, 0, FALSE, 0),
                ModelEMA(default_decay, default_total_epochs), "eval")
    /\ InitRest(Args(0, 0, 1, 0, FALSE, 0), <<>>, InitialParams)

\* The head of evaluate_accuracy (lines 159-172): the ValueError of a missing
\* tracker, or the choice of the model, model.eval() and the zeroed sums.
EvalCall ==
    /\ pc = "eval"
    /\ ev.at # "loop"
    /\ ev.calls < MaxEvalCalls
    /\ \E stream \in EvalStreams, use_ema \in BOOLEAN, has_ema \in BOOLEAN :
          LET frame == [ev EXCEPT !.calls = ev.calls + 1, !.use_ema = use_ema,
                                  !.has_ema = has_ema, !.stream = stream,
                                  !.i = 0, !.acc_sum = 0, !.loss_sum = 0,
                                  !.n = 0]
          IN  IF use_ema /\ ~has_ema
              THEN /\ ev' = [frame EXCEPT !.at = "raised", !.model = "none"]
                   /\ error' = "ValueError"
                   /\ UNCHANGED modevars
              ELSE /\ ev' = [frame EXCEPT !.at = "loop",
                                          !.model = Selected(use_ema)]
                   /\ error' = "none"
                   /\ net_training' = IF Selected(use_ema) = "net"
                                      THEN EvalMode(net_training)
                                      ELSE net_training
                   /\ ema_mode' =
                        IF Selected(use_ema) = "ema"
                        THEN [ema_mode EXCEPT
                                !.training = EvalMode(ema_mode.training)]
                        ELSE ema_mode
    /\ UNCHANGED <<pc, trainvars, train_iter, sumvars, paramvars>>

\* One iteration of the loop of evaluate_accuracy (lines 174-181).
EvalBatch ==
    /\ pc = "eval"
    /\ ev.at = "loop"
    /\ ev.i < Len(ev.stream)
    /\ LET b == ev.stream[ev.i + 1]
       IN  ev' = [ev EXCEPT !.i = ev.i + 1,
                            !.acc_sum = ev.acc_sum + b.correct,
                            !.loss_sum = ev.loss_sum + b.loss * Samples(b),
                            !.n = ev.n + Samples(b)]
    /\ UNCHANGED <<pc, trainvars, train_iter, sumvars, paramvars, modevars, error>>

\* return acc_sum / n, loss_sum / n (line 182): a ZeroDivisionError when the
\* stream had no sample.
EvalReturn ==
    /\ pc = "eval"
    /\ ev.at = "loop"
    /\ ev.i = Len(ev.stream)
    /\ IF ev.n = 0
       THEN ev' = [ev EXCEPT !.at = "raised"] /\ error' = "ZeroDivisionError"
       ELSE ev' = [ev EXCEPT !.at = "returned"] /\ UNCHANGED error
    /\ UNCHANGED <<pc, trainvars, train_iter, sumvars, paramvars, modevars>>

\* net.train() between two evaluations (line 200).
NetTrain ==
    /\ pc = "eval"
    /\ ev.at # "loop"
    /\ ~net_training
    /\ net_training' = TrainMode(net_training)
    /\ UNCHANGED <<pc, trainvars, train_iter, sumvars, paramvars, ema_mode, error, ev>>

NextEval == EvalCall \/ EvalBatch \/ EvalReturn \/ NetTrain

SpecEval == InitEval /\ [][NextEval]_vars

\* train and evaluate_accuracy side by side: a run of train, or calls of
\* evaluate_accuracy on streams of their own.
InitMetrics == Init \/ InitEval

NextMetrics == Next \/ NextEval

SpecMetrics == InitMetrics /\ [][NextMetrics]_vars

(***************************************************************************)
(* The scheduler block alone, over many epochs                             *)
(***************************************************************************)
InitSched ==
    /\ InitWith(Args(MaxSchedEpochs, 0, 1, 0, FALSE, 0),
                ModelEMA(default_decay, default_total_epochs), "sched_only")
    /\ InitRest(Args(MaxSchedEpochs, 0, 1, 0, FALSE, 0), <<>>, InitialParams)

\* The scheduler block of one epoch after another (lines 269-280), with any
\* validation accuracy; the rest of the epoch is left out.
SchedulerCall ==
    /\ pc = "sched_only"
    /\ epoch < args.num_epochs
    /\ \E a \in AccVals :
          /\ test_acc' = a
          /\ StepSchedulers(epoch, a)
    /\ epoch' = epoch + 1
    /\ UNCHANGED <<args, pc, batch_idx, n, step_log, opt_steps, ema_updates, ema,
                   test_loss, ema_test_acc, phases, emitted, best_acc, best_metric,
                   no_improve, best_live_seen, best_ema_seen, wrote_live, wrote_ema,
                   files, returned>>
    /\ UNCHANGED <<train_iter, sumvars, paramvars, modevars, error, ev>>

NextSched == SchedulerCall

SpecSched == InitSched /\ [][NextSched]_vars

(***************************************************************************)
(* Properties                                                              *)
(***************************************************************************)
\* The batches of the current epoch the batch loop has finished.
Processed == 0 .. (batch_idx - 1)

\* C1: in the batch loop a step is triggered after batch i iff
\* (i+1) % accum_steps = 0 or i+1 is the number of batches of the epoch; with
\* accum_steps = 4 and 10 batches the triggers are after batches 4, 8 and 10.
C1_StepTriggers ==
    /\ step_log \subseteq Processed
    /\ \A i \in Processed :
          i \in step_log <=>
             \/ (i + 1) % args.accum_steps = 0
             \/ i + 1 = args.total_batches
    /\ (args \in ExampleArgs /\ batch_idx = args.total_batches /\ pc = "batch")
          => step_log = {3, 7, 9}

\* A trailing partial window has produced its step.
C1_Witness ==
    /\ args.total_batches % args.accum_steps # 0
    /\ args.total_batches > args.accum_steps
    /\ batch_idx = args.total_batches
    /\ (args.total_batches - 1) \in step_log

\* C2: the number of ModelEMA.update calls equals the number of optimizer
\* steps applied to the live parameters, also when the scaler skips a step.
C2_EmaUpdatesEqualOptimizerSteps == ema_updates = opt_steps

\* C3 as stated: two independent trackers. At the end of an epoch's checks,
\* best_model was written iff the live accuracy exceeds the best live accuracy
\* of earlier epochs, and best_model_ema iff the EMA accuracy exceeds the best
\* EMA accuracy of earlier epochs.
C3_IndependentTrackers ==
    pc = "early_stop" =>
        /\ wrote_live <=> test_acc > best_live_seen
        /\ wrote_ema <=> ema_test_acc > best_ema_seen

\* C3 as amended: one shared best_acc gates both checkpoints. best_model is
\* written iff the live accuracy exceeds the largest accuracy, live or EMA, of
\* earlier epochs (or the best_acc argument); best_model_ema iff the EMA
\* accuracy exceeds that and the epoch's live accuracy too.
C3_SharedTracker ==
    pc = "early_stop" =>
        LET earlier == Max(best_live_seen, best_ema_seen)
        IN  /\ wrote_live <=> test_acc > earlier
            /\ wrote_ema <=> (ema_test_acc > earlier /\ ema_test_acc > test_acc)
            /\ wrote_live => "best_model.pth" \in files
            /\ wrote_ema => "best_model_ema.pth" \in files

\* An EMA accuracy that beats every earlier EMA accuracy writes no checkpoint,
\* because the live model's accuracy is as high.
C3_Witness ==
    /\ pc = "early_stop"
    /\ epoch >= 1
    /\ ema_test_acc > best_ema_seen
    /\ ~wrote_ema

\* The early-stop block run over a sequence of accuracies at a constant loss:
\* the 1-based epoch after which the stop fires, 0 when it never does.
RECURSIVE StopEpoch(_, _, _, _, _, _)
StopEpoch(accs, loss, pat, k, bm, ni) ==
    IF k > Len(accs) THEN 0
    ELSE LET r == EarlyStop(bm, ni, CurrentMetric(accs[k], loss), pat)
         IN  IF r.stop THEN k
             ELSE StopEpoch(accs, loss, pat, k + 1, r.best_metric, r.no_improve)

\* The composite of the epoch, written out: 0.8*acc + 0.2*(1 - loss).
EpochComposite == 8 * test_acc + 2 * (100 - test_loss)

\* C4, the step: the early-stop check compares the epoch's composite with its
\* running best; an improvement records it and resets the counter, anything
\* else increments the counter, and the loop is left exactly when the counter
\* reaches patience.
C4_Step ==
    pc = "early_stop" =>
        IF EpochComposite > best_metric
        THEN /\ best_metric' = EpochComposite
             /\ no_improve' = 0
             /\ pc' = "for_epoch"
        ELSE /\ best_metric' = best_metric
             /\ no_improve' = no_improve + 1
             /\ pc' = IF no_improve' = patience THEN "exit" ELSE "for_epoch"

\* C4: early stopping. The composite's best starts at 0; the counter counts
\* the consecutive non-improving epochs; training goes on while the counter is
\* below patience and stops before the next epoch when it reaches patience,
\* never earlier. With a constant loss, accuracies 0.70, 0.72, 0.71, 0.71,
\* 0.71 and a threshold of 3 the stop fires after the 5th epoch.
C4_EarlyStopping ==
    /\ [][C4_Step]_vars
    /\ [](/\ no_improve <= patience
          /\ no_improve <= epoch + 1
          /\ pc = "exit" => no_improve = patience
          /\ no_improve = patience => pc \in {"exit", "done"}
          /\ (pc = "for_epoch" /\ epoch = 0) => (best_metric = 0 /\ no_improve = 0))
    /\ StopEpoch(<<70, 72, 71, 71, 71>>, 50, 3, 1, 0, 0) = 5

\* Early stopping has fired, after an epoch that improved was followed by
\* patience epochs that did not.
C4_Witness ==
    /\ pc = "exit"
    /\ no_improve = patience
    /\ epoch > patience - 1

\* The rates the cosine schedule leaves after its step of epoch 11:
\* eta_min + (configured - eta_min) * (1 + cos(11*pi/12)) / 2.
CosineTerminal == [g \in Groups |-> eta_min + ((configured_lr[g] - eta_min) * 17) \div 1000]

\* C5, the steps: the first plateau step finds the cosine-terminal rates in the
\* optimizer and makes them the baseline; no later step touches the baseline;
\* a plateau step leaves the rates alone or multiplies each by the factor 0.3.
C5_Step ==
    /\ (plateau_steps' > plateau_steps /\ plateau_steps = 0) =>
          /\ epoch = 12
          /\ lr = CosineTerminal
          /\ initial_lr' = lr
          /\ plateau'.base_lrs = lr
          /\ rebases' = 1
    /\ plateau_steps > 0 =>
          /\ initial_lr' = initial_lr
          /\ plateau'.base_lrs = plateau.base_lrs
          /\ rebases' = rebases
    /\ plateau_steps' > plateau_steps =>
          \/ lr' = lr
          \/ \A g \in Groups : lr'[g] = (lr[g] * 3) \div 10

\* C5: at epoch 12 every group's baseline ('initial_lr', base_lrs) becomes the
\* rate the cosine schedule left after epoch 11, not the configured rate; the
\* re-basing happens once, and later reductions multiply the carried-over rate.
C5_Rebase ==
    /\ [][C5_Step]_vars
    /\ [](/\ rebases <= 1
          /\ rebases = 1 <=> plateau_steps > 0
          /\ rebases = 0 => initial_lr = configured_lr
          /\ rebases = 1 =>
                \A g \in Groups :
                    /\ initial_lr[g] = CosineTerminal[g]
                    /\ plateau.base_lrs[g] = CosineTerminal[g]
                    /\ initial_lr[g] < configured_lr[g]
                    /\ lr[g] <= initial_lr[g])

\* After the re-basing the plateau scheduler has reduced the carried-over rates.
C5_Witness ==
    /\ rebases = 1
    /\ \A g \in Groups : lr[g] = (CosineTerminal[g] * 3) \div 10

\* The scheduler steps train has made when it has finished k epochs' steps.
SchedulerCalls ==
    IF pc \in {"metrics", "ckpt_live", "ckpt_ema", "early_stop", "exit"}
    THEN epoch + 1
    ELSE epoch

\* C6, the steps: a scheduler phase steps exactly one scheduler, the cosine one
\* in an epoch below 12 and the plateau one from epoch 12 on; once the plateau
\* scheduler has been stepped the cosine scheduler is not stepped again.
C6_Step ==
    /\ pc = "sched" =>
          IF epoch < 12
          THEN cosine_steps' = cosine_steps + 1 /\ plateau_steps' = plateau_steps
          ELSE plateau_steps' = plateau_steps + 1 /\ cosine_steps' = cosine_steps
    /\ pc # "sched" => (cosine_steps' = cosine_steps /\ plateau_steps' = plateau_steps)
    /\ plateau_steps > 0 => cosine_steps' = cosine_steps

\* C6: the learning-rate controller is a one-way two-state machine: exactly
\* one scheduler step per executed epoch, cosine below epoch 12, plateau from
\* epoch 12 on, and no plateau step before epoch 12.
C6_OneWaySwitch ==
    /\ [][C6_Step]_vars
    /\ [](/\ pc \notin {"done", "error"} =>
                /\ cosine_steps = Min(SchedulerCalls, 12)
                /\ plateau_steps = Max(SchedulerCalls - 12, 0)
          /\ cosine_steps <= 12
          /\ plateau_steps > 0 => (epoch >= 12 /\ cosine_steps = 12)
          /\ current_scheduler = (IF plateau_steps > 0 THEN "plateau" ELSE "cosine"))

\* Both states of the controller have been visited.
C6_Witness ==
    /\ cosine_steps = 12
    /\ plateau_steps >= 2
    /\ current_scheduler = "plateau"

\* The phases of an epoch, in the order of the loop body.
PhaseOrder ==
    <<"batches", "eval_live", "eval_ema", "scheduler", "metrics", "ckpt_live",
      "ckpt_ema", "early_stop">>

\* The phases an epoch has finished when control is at position p.
PhasesAt(p) ==
    CASE p = "batch" -> 0
      [] p = "eval_live" -> 1
      [] p = "eval_ema" -> 2
      [] p = "sched" -> 3
      [] p = "metrics" -> 4
      [] p = "ckpt_live" -> 5
      [] p = "ckpt_ema" -> 6
      [] p = "early_stop" -> 7
      [] p = "exit" -> 8
      [] OTHER -> 0 - 1

\* C7, the steps: optimizer steps and EMA updates happen only in the batch
\* loop, before any phase of the epoch is finished; the scalars are emitted
\* and the checkpoints checked only after the scheduler step.
C7_Step ==
    /\ (opt_steps' # opt_steps \/ ema_updates' # ema_updates) =>
          (pc = "batch" /\ phases = <<>>)
    /\ (cosine_steps' # cosine_steps \/ plateau_steps' # plateau_steps) =>
          (phases = SubSeq(PhaseOrder, 1, 3) /\ test_acc \in AccVals)
    /\ emitted' # emitted => phases = SubSeq(PhaseOrder, 1, 4)
    /\ wrote_live' # wrote_live /\ wrote_live' => phases = SubSeq(PhaseOrder, 1, 5)
    /\ wrote_ema' # wrote_ema /\ wrote_ema' => phases = SubSeq(PhaseOrder, 1, 6)
    /\ no_improve' # no_improve => phases = SubSeq(PhaseOrder, 1, 7)

\* C7: the phases of an epoch run in the order batch loop, live evaluation,
\* EMA evaluation, scheduler step (on the epoch's live accuracy), metrics, live
\* checkpoint, EMA checkpoint, early-stop check, each once; nothing steps the
\* optimizer or the EMA after the evaluations; the epoch in which early
\* stopping fires has emitted its metrics and made its checkpoint checks.
C7_PhaseOrder ==
    /\ [][C7_Step]_vars
    /\ [](/\ PhasesAt(pc) >= 0 => phases = SubSeq(PhaseOrder, 1, PhasesAt(pc))
          /\ (pc = "for_epoch" /\ epoch > 0) => phases = PhaseOrder
          /\ pc = "exit" => (phases = PhaseOrder /\ emitted = epoch + 1)
          /\ pc = "for_epoch" => emitted = epoch)

\* The epoch in which early stopping fired has run all its phases.
C7_Witness ==
    /\ pc = "exit"
    /\ phases = PhaseOrder
    /\ emitted = epoch + 1
    /\ wrote_live

\* The largest accuracy, live or EMA, of the finished epochs, or the best_acc
\* argument when that is larger.
BestObserved == Max(best_live_seen, best_ema_seen)

\* A stream of train yields no sample.
EmptyStream == args.val_samples = 0 \/ args.total_batches = 0

\* C8 as stated: train runs at most num_epochs epochs and always ends by
\* returning the best accuracy observed: wherever it cannot take a step it has
\* returned, and the value is the maximum of the best_acc argument and every
\* live and EMA validation accuracy of the executed epochs.
C8_AlwaysReturns ==
    /\ pc = "done" \/ ENABLED Next
    /\ epoch <= args.num_epochs
    /\ pc = "done" => returned = BestObserved

\* C8 as amended: train runs epochs 0..num_epochs-1 in order, at most
\* num_epochs of them, and always terminates: by returning the maximum of the
\* best_acc argument and every live and EMA accuracy of the executed epochs
\* (also after an early stop), or, when a stream is empty and num_epochs > 0,
\* by the ZeroDivisionError of epoch 0.
C8_Terminates ==
    /\ [][epoch' = epoch \/ (epoch' = epoch + 1 /\ pc = "early_stop")]_vars
    /\ [](/\ epoch <= args.num_epochs
          /\ emitted <= args.num_epochs
          /\ pc = "done" => returned = BestObserved
          /\ pc = "done" => (epoch = args.num_epochs \/ no_improve = patience)
          /\ pc = "error" => (EmptyStream /\ epoch = 0 /\ args.num_epochs > 0)
          /\ pc \in {"done", "error"} \/ ENABLED Next)
    /\ <>(pc \in {"done", "error"})
    /\ (~EmptyStream \/ args.num_epochs = 0) => <>(pc = "done")

\* train has returned after an early stop, and the value is an EMA accuracy
\* no live accuracy reached.
C8_Witness ==
    /\ pc = "done"
    /\ no_improve = patience
    /\ epoch < args.num_epochs
    /\ returned = best_ema_seen
    /\ returned > best_live_seen

\* C9: best_acc and best_metric never decrease.
C9_BestNonDecreasing ==
    [][best_acc' >= best_acc /\ best_metric' >= best_metric]_vars

\* An epoch whose composite was negative and whose accuracy dropped has been
\* checked, and both records kept their values.
C9_Witness ==
    /\ pc = "for_epoch"
    /\ epoch > 0
    /\ EpochComposite < 0
    /\ test_acc < best_acc
    /\ ema_test_acc < best_acc
    /\ best_metric > 0

\* C10, across calls: a call for a later (or the same) epoch than the previous
\* call uses a decay that is not larger.
C10_Step ==
    (ema_updates >= 1 /\ epoch' >= epoch) => ema'.decay <= ema.decay

\* C10: the decay of ModelEMA.update is non-increasing in the epoch, is
\* initial_decay at epoch 0, lies on the line from initial_decay (epoch 0) to
\* min_decay (epoch total_epochs), and is exactly min_decay from total_epochs
\* on, never below it.
C10_DecaySchedule ==
    /\ [][C10_Step]_vars
    /\ [](ema_updates >= 1 =>
            /\ ema.decay >= ema.min_decay
            /\ ema.decay <= ema.initial_decay
            /\ epoch = 0 => ema.decay = ema.initial_decay
            /\ epoch >= ema.total_epochs => ema.decay = ema.min_decay
            /\ epoch <= ema.total_epochs =>
                  ema.decay * ema.total_epochs =
                      ema.initial_decay * ema.total_epochs
                        - (ema.initial_decay - ema.min_decay) * epoch)

\* update has been called for an epoch beyond total_epochs after a call for an
\* earlier epoch, and the decay came down to min_decay.
C10_Witness ==
    /\ pc = "ema"
    /\ ema_updates = 2
    /\ epoch > ema.total_epochs
    /\ ema.initial_decay > ema.min_decay
    /\ ema.decay = ema.min_decay

\* C11, the step: one call of update sets every shadow parameter to
\* decay * shadow + (1 - decay) * live, with the decay of the call's epoch and
\* the live value at the time of the call.
C11_Step ==
    ema_updates' = ema_updates + 1 =>
        \A p \in ParamNames :
            shadow'[p] = (Decay(ema, epoch') * shadow[p]
                          + (100000 - Decay(ema, epoch')) * live[p]) \div 100000

\* C11: the shadow follows that formula at every update; it starts as a copy
\* of the live parameters, and as long as the live model has not changed any
\* number of updates leaves it equal to them.
C11_ShadowUpdate ==
    /\ [][C11_Step]_vars
    /\ [](opt_steps = 0 => shadow = live)

\* An update after the live model changed: the shadow has moved away from its
\* first value, towards the live one.
C11_Witness ==
    /\ pc = "ema"
    /\ ema_updates >= 1
    /\ opt_steps >= 1
    /\ shadow # InitialParams
    /\ shadow # live

\* The first k batches of a stream: their samples, their correct predictions
\* and the sum of (batch loss * batch size).
TotalSamples(stream, k) ==
    LET f[i \in 0 .. k] == IF i = 0 THEN 0 ELSE f[i - 1] + stream[i].size
    IN  f[k]

TotalCorrect(stream, k) ==
    LET f[i \in 0 .. k] == IF i = 0 THEN 0 ELSE f[i - 1] + stream[i].correct
    IN  f[k]

TotalLoss(stream, k) ==
    LET f[i \in 0 .. k] ==
            IF i = 0 THEN 0 ELSE f[i - 1] + stream[i].loss * stream[i].size
    IN  f[k]

\* C12: the sums behind the reported means are sample-weighted, in train and in
\* evaluate_accuracy: after k batches the accuracy sum is the number of correct
\* predictions, the loss sum is the sum of batch loss * batch size (whatever
\* accum_steps is) and n is the number of samples; evaluate_accuracy returns
\* their quotients over the whole stream.
C12_SampleWeighted ==
    /\ n = TotalSamples(train_iter, batch_idx)
    /\ train_acc_sum = TotalCorrect(train_iter, batch_idx)
    /\ train_l_sum = TotalLoss(train_iter, batch_idx)
    /\ pc \in {"eval_live", "eval_ema", "sched", "metrics", "ckpt_live", "ckpt_ema",
               "early_stop"} => batch_idx = Len(train_iter)
    /\ ev.n = TotalSamples(ev.stream, ev.i)
    /\ ev.acc_sum = TotalCorrect(ev.stream, ev.i)
    /\ ev.loss_sum = TotalLoss(ev.stream, ev.i)
    /\ ev.at = "returned" => ev.i = Len(ev.stream) /\ ev.n > 0

\* Batches of sizes 8, 8, 8, 6 with accuracies 1, 1, 1, 1/2: the mean returned
\* is 27/30, and the plain average of the four accuracies is 7/8.
C12_Witness ==
    /\ ev.at = "returned"
    /\ ev.stream = <<Batch(8, 8, 60), Batch(8, 8, 60), Batch(8, 8, 60),
                     Batch(6, 3, 120)>>
    /\ ev.acc_sum = 27
    /\ ev.n = 30
    /\ ev.acc_sum * 8 # 7 * ev.n

\* C13, the step: at a step trigger where the scaler found an overflow the
\* optimizer step is skipped (parameters and moments as before), the scale
\* shrinks, nothing is raised, the loop goes on and the buffer is zeroed.
C13_Step ==
    (ema_updates' = ema_updates + 1 /\ used'[Len(used')].overflow) =>
        /\ live' = live
        /\ moments' = moments
        /\ opt_steps' = opt_steps
        /\ scaler'.scale < scaler.scale
        /\ error' = "none"
        /\ pc' = "batch"
        /\ grads' = <<>>

\* C13: so at every trigger with an overflow; and the window after such a
\* trigger holds gradients of later micro-batches only.
C13_OverflowSkipsStep ==
    /\ [][C13_Step]_vars
    /\ [](\A k \in 1 .. Len(used) - 1 :
            used[k].overflow =>
                \A c \in 1 .. Len(used[k].window), d \in 1 .. Len(used[k + 1].window) :
                    used[k + 1].window[d].batch > used[k].window[c].batch)

\* A trigger with an overflow, followed by another trigger in the same epoch.
C13_Witness ==
    /\ pc = "batch"
    /\ Len(used) >= 2
    /\ used[1].overflow
    /\ ~used[2].overflow
    /\ opt_steps = 1

\* C14 as stated: a stream without samples ends the run in an explicit
\* empty-stream error, with no checkpoint written and no scheduler stepped.
C14_ExplicitEmptyStreamError ==
    pc = "error" =>
        /\ error = "EmptyStreamError"
        /\ files = {}
        /\ cosine_steps = 0
        /\ plateau_steps = 0

\* C15, the step: a call with use_ema and no tracker raises at once, with no
\* model switched to inference mode and no batch consumed; any other call
\* evaluates the shadow when use_ema is set and the live model when it is not.
C15_Step ==
    ev'.calls = ev.calls + 1 =>
        IF ev'.use_ema /\ ~ev'.has_ema
        THEN /\ ev'.at = "raised"
             /\ error' = "ValueError"
             /\ net_training' = net_training
             /\ ema_mode' = ema_mode
             /\ ev'.i = 0
        ELSE /\ ev'.at = "loop"
             /\ ev'.model = IF ev'.use_ema THEN "ema" ELSE "net"

\* C15: so at every call; and a call that raised the ValueError never consumes
\* a batch.
C15_FailsFast ==
    /\ [][C15_Step]_vars
    /\ [](error = "ValueError" => ev.at = "raised" /\ ev.i = 0 /\ ev.n = 0)

\* The ValueError on a stream that has batches, the live model still in
\* training mode.
C15_Witness ==
    /\ error = "ValueError"
    /\ ev.use_ema
    /\ Len(ev.stream) > 0
    /\ net_training

\* C16, the step: update leaves the live parameters, the gradients and the
\* optimizer's state as they were.
C16_Step ==
    ema_updates' = ema_updates + 1 =>
        /\ live' = live
        /\ grads' = grads
        /\ moments' = moments

\* C16: update writes the shadow only, and the shadow has the parameter names
\* of the live model in every state.
C16_UpdateFrame ==
    /\ [][C16_Step]_vars
    /\ [](DOMAIN shadow = DOMAIN live)

\* Every update of the bound made, on a live model that differs from the
\* shadow.
C16_Witness ==
    /\ pc = "ema"
    /\ ema_updates = MaxEmaCalls
    /\ live # InitialParams
    /\ shadow # live

\* C17 as stated: the rates of all groups are multiplied by the factor, and
\* the counter reset, at the patience-th consecutive call without improvement.
C17_OrigStep ==
    plateau_steps' = plateau_steps + 1 =>
        LET better == plateau.best = NegInf \/ test_acc' * 1000 > plateau.best * 1001
            bad == IF better THEN 0 ELSE plateau.num_bad_epochs + 1
        IN  IF bad = plateau_patience
            THEN /\ \A g \in Groups : lr'[g] = (lr[g] * 3) \div 10
                 /\ plateau'.num_bad_epochs = 0
            ELSE lr' = lr

C17_ReduceAtPatience == [][C17_OrigStep]_vars

\* C17, the step as amended: the reduction comes at the (patience + 1)-th
\* consecutive call without improvement; it multiplies a group's rate by the
\* factor unless that would change it by no more than eps = 1e-8, and resets
\* the counter; every other call leaves the rates, and the first call, at
\* epoch 12, counts as an improvement.
C17_Step ==
    plateau_steps' = plateau_steps + 1 =>
        LET better == plateau.best = NegInf \/ test_acc' * 1000 > plateau.best * 1001
            bad == IF better THEN 0 ELSE plateau.num_bad_epochs + 1
        IN  /\ IF bad = plateau_patience + 1
               THEN /\ \A g \in Groups :
                         lr'[g] = IF lr[g] - (lr[g] * 3) \div 10 > 10
                                  THEN (lr[g] * 3) \div 10
                                  ELSE lr[g]
                    /\ plateau'.num_bad_epochs = 0
               ELSE /\ lr' = lr
                    /\ plateau'.num_bad_epochs = bad
            /\ plateau'.best = IF better THEN test_acc' ELSE plateau.best
            /\ plateau_steps = 0 => epoch = switch_epoch /\ better

\* C17 as amended.
C17_PlateauReduction ==
    /\ [][C17_Step]_vars
    /\ [](plateau.num_bad_epochs <= plateau_patience)

\* Five reductions: the fifth changed the rates of the second and third group
\* and left the first at 1e-8.
C17_Witness ==
    /\ plateau_steps > 0
    /\ lr = <<10, 22, 43>>

\* C18, the step: the EMA check writes best_model_ema iff the EMA accuracy
\* exceeds best_acc as the live check left it; then it exceeds the epoch's live
\* accuracy and every accuracy, live or EMA, of earlier epochs.
C18_Step ==
    pc = "ckpt_ema" =>
        /\ wrote_ema' <=> ema_test_acc > best_acc
        /\ wrote_ema' =>
              /\ best_acc' = ema_test_acc
              /\ "best_model_ema.pth" \in files'
              /\ ema_test_acc > test_acc
              /\ ema_test_acc > best_live_seen
              /\ ema_test_acc > best_ema_seen
        /\ ~wrote_ema' => best_acc' = best_acc /\ files' = files

\* C18: so in every epoch, where the live check has left best_acc at least as
\* high as the epoch's live accuracy and as every earlier accuracy.
C18_EmaGatedBySharedBest ==
    /\ [][C18_Step]_vars
    /\ [](pc = "ckpt_ema" =>
            /\ ~wrote_ema
            /\ best_acc >= test_acc
            /\ best_acc >= best_live_seen
            /\ best_acc >= best_ema_seen)

\* Both checkpoints written in one epoch after the first: the EMA accuracy beat
\* the best the live check had just recorded.
C18_Witness ==
    /\ pc = "early_stop"
    /\ epoch >= 1
    /\ wrote_live
    /\ wrote_ema
    /\ best_acc = ema_test_acc

\* The micro-batches of the windows stepped so far in this epoch, in order.
Stepped(k) ==
    LET f[i \in 0 .. k] == IF i = 0 THEN <<>> ELSE f[i - 1] \o used[i].window
    IN  f[k]

\* C19, the step: a step trigger leaves the gradient buffer empty.
C19_Step == ema_updates' = ema_updates + 1 => grads' = <<>>

\* C19: the buffer is empty at the start of every epoch and outside the batch
\* loop; every window stepped holds 1 to accum_steps micro-batches, each
\* divided by accum_steps; the windows of an epoch followed by the buffer are
\* the micro-batches 0, 1, ... of that epoch in order, each exactly once.
C19_GradientWindows ==
    /\ [][C19_Step]_vars
    /\ [](/\ (pc # "batch" \/ batch_idx = 0) => grads = <<>>
          /\ Len(grads) < args.accum_steps
          /\ \A k \in 1 .. Len(used) :
                /\ Len(used[k].window) >= 1
                /\ Len(used[k].window) <= args.accum_steps
          /\ LET all == Stepped(Len(used)) \o grads
             IN  /\ pc = "batch" => Len(all) = batch_idx
                 /\ \A j \in 1 .. Len(all) :
                       /\ all[j].batch = j - 1
                       /\ all[j].div = args.accum_steps
                       /\ all[j].epoch = all[1].epoch
                       /\ pc \in {"batch", "eval_live", "eval_ema", "sched", "metrics",
                                  "ckpt_live", "ckpt_ema", "early_stop"}
                             => all[j].epoch = epoch
          /\ pc \in {"eval_live", "eval_ema", "sched", "metrics", "ckpt_live",
                     "ckpt_ema", "early_stop"}
                => Len(Stepped(Len(used))) = args.total_batches)

\* The 10-batch epoch with accum_steps = 4: windows of 4, 4 and 2 micro-batches.
C19_Witness ==
    /\ pc = "eval_live"
    /\ args.accum_steps = 4
    /\ Len(used) = 3
    /\ Len(used[3].window) = 2
    /\ used[3].window[1].batch = 8

\* C20: the batch loop runs with the live model in training mode, although the
\* evaluations of the epoch before left it in inference mode; the shadow is in
\* inference mode, without gradient tracking, in every state.
C20_Modes ==
    /\ pc = "batch" => net_training
    /\ pc \in {"eval_ema", "sched", "metrics", "ckpt_live", "ckpt_ema", "early_stop"}
          => ~net_training
    /\ (pc = "for_epoch" /\ epoch >= 1) => ~net_training
    /\ ~ema_mode.training
    /\ ~ema_mode.requires_grad

\* The batch loop of a later epoch, after updates and evaluations of the shadow.
C20_Witness ==
    /\ pc = "batch"
    /\ epoch >= 1
    /\ batch_idx >= 1
    /\ ema_updates >= 2
    /\ net_training

====
